---- MODULE Spec2Model ----
(***************************************************************************)
(* A model of the Darkfibre SDK client: the TradeService pipeline          *)
(* (build -> validate -> sign -> submit), the HttpClient response          *)
(* interceptor and request headers, the TransactionSigner key cache and    *)
(* its three operations, and the facade operations register and            *)
(* getProfile.                                                             *)
(*                                                                         *)
(* Numbers: priceImpact and maxPriceImpact are fractions counted in basis  *)
(* points (1 = 0.0001), priority costs and trade amounts are counted in    *)
(* whole units; only their order and equality matter to the code.          *)
(* An optional value (undefined / null in the source) is a sequence of     *)
(* length 0, a present value v is <<v>>.                                   *)
(* The fields of a record are written in the order of TLC's normal form    *)
(* (the order in which the names first occur in the module), not in the    *)
(* order of the source: a record value handed to an action is shared by    *)
(* TLC's workers, and normalising it then rearranges nothing.              *)
(***************************************************************************)
EXTENDS Integers, Sequences, FiniteSets, TLC

MaxCalls == 2
MaxTokens == 2
MaxLimit == 1
MaxImpact == 1
MaxCost == 1
MaxAmount == 2
MaxTime == 2
MaxDerivations == 2

Calls == 1..MaxCalls
Tokens == 1..MaxTokens
Limits == 0..MaxLimit
Impacts == 0..MaxImpact
Costs == 0..MaxCost
Amounts == 1..MaxAmount

Absent == <<>>
Some(v) == <<v>>
Optional(S) == {Absent} \cup {Some(v) : v \in S}

VARIABLES
  baseUrl,         \* SDKConfig.baseUrl or the default, given at construction
  apiKey,          \* SDKConfig.apiKey, given at construction
  privateKey,      \* TransactionSigner.privateKey, given at construction
  signer,          \* TransactionSigner.signer, the cached key pair or null
  derivations,     \* how often getSigner has called createKeyPairFromBase58
  writes,          \* how often getSigner has assigned this.signer
  nextToken,       \* backend: the next submission token a build hands out
  submitted,       \* backend: how often each token has been posted to /tx/submit
  pc,              \* per call: the await the call is suspended at
  op,              \* per call: the public operation
  options,         \* per call: the argument of the operation
  build,           \* per call: the destructured build response
  signedTransaction, \* per call: the result of signer.signTransaction
  submit,          \* per call: the data of the submit response
  failure,         \* per call: the error the transport rejected with
  outcome,         \* per call: pending, the returned value or the thrown error
  log              \* per call: the steps taken, in order

vars == <<baseUrl, apiKey, privateKey, signer, derivations, writes, nextToken, submitted,
          pc, op, options, build, signedTransaction, submit, failure, outcome, log>>

(***************************************************************************)
(* Errors                                                                  *)
(***************************************************************************)
ValidationError(message, field) ==
  [message |-> message, field |-> field, name |-> "ValidationError"]

SigningError(message, cause) ==
  [message |-> message, name |-> "SigningError", cause |-> cause]

APIError(code, message, status) ==
  [message |-> message, name |-> "APIError", code |-> code, status |-> status]

\* An error of the HTTP library: its code, its message and the response, if any.
AxiosError(code, message, response) ==
  [message |-> message, name |-> "AxiosError", code |-> code, response |-> response]

\* An error of the cryptographic library or of the runtime.
PlainError(message) == [message |-> message, name |-> "Error"]

(***************************************************************************)
(* HttpClient                                                              *)
(***************************************************************************)
\* Responses a failed request can carry: a structured {error:{code,message}}
\* body, a JSON body without an error member, or no (or no JSON) body.
ErrorResponses ==
  { [status |-> 401, data |-> Some([error |-> Some([message |-> "Invalid API key",
                                                    code |-> "UNAUTHORIZED"])])],
    [status |-> 500, data |-> Some([error |-> Absent])],
    [status |-> 502, data |-> Absent] }

AxiosCodes == {"ECONNABORTED", "ETIMEDOUT", "ERR_BAD_RESPONSE"}

\* Every failure the HTTP library can reject a request with: one that carries
\* a response, or one without (whose message may be empty).
AxiosErrors ==
  { AxiosError(c, "Request failed", Some(r)) : c \in AxiosCodes, r \in ErrorResponses }
  \cup { AxiosError(c, m, Absent) : c \in AxiosCodes, m \in {"", "Network Error"} }

\* error.response?.data?.error
ErrorMember(error) ==
  IF error.response = Absent THEN Absent
  ELSE IF error.response[1].data = Absent THEN Absent
  ELSE error.response[1].data[1].error

\* interceptor that reads the status off the error instead of its response.
interceptorStatusOfError(error) ==
  IF error.code = "ECONNABORTED" \/ error.code = "ETIMEDOUT"
    THEN APIError("TIMEOUT", "Request timed out", 408)
  ELSE IF ErrorMember(error) # Absent
    THEN APIError(ErrorMember(error)[1].code, ErrorMember(error)[1].message, 0)
  ELSE IF error.response = Absent
    THEN APIError("NETWORK_ERROR",
                  IF error.message # "" THEN error.message
                  ELSE "Network error occurred", 0)
  ELSE error

\* interceptor with the body rule ahead of the timeout rule.
interceptorBodyFirst(error) ==
  IF ErrorMember(error) # Absent
    THEN APIError(ErrorMember(error)[1].code, ErrorMember(error)[1].message,
                  error.response[1].status)
  ELSE IF error.code = "ECONNABORTED" \/ error.code = "ETIMEDOUT"
    THEN APIError("TIMEOUT", "Request timed out", 408)
  ELSE IF error.response = Absent
    THEN APIError("NETWORK_ERROR",
                  IF error.message # "" THEN error.message
                  ELSE "Network error occurred", 0)
  ELSE error

\* The response interceptor's rejection handler: what it throws for `error`.
interceptor(error) ==
  IF error.code = "ECONNABORTED" \/ error.code = "ETIMEDOUT"
    THEN APIError("TIMEOUT", "Request timed out", 408)
  ELSE IF ErrorMember(error) # Absent
    THEN APIError(ErrorMember(error)[1].code, ErrorMember(error)[1].message,
                  error.response[1].status)
  ELSE IF error.response = Absent
    THEN APIError("NETWORK_ERROR",
                  IF error.message # "" THEN error.message
                  ELSE "Network error occurred", 0)
  ELSE error

\* Headers that puts whatever key it is given into Authorization.
HeadersOfAnyKey(key) ==
  [ContentType |-> "application/json",
   Authorization |-> IF key # Absent THEN Some("Bearer " \o key[1])
                     ELSE Some("Bearer undefined")]

\* The default headers of a client constructed with `key` (absent for the
\* client register constructs): Authorization is set when key is truthy.
Headers(key) ==
  [ContentType |-> "application/json",
   Authorization |-> IF key # Absent /\ key[1] # "" THEN Some("Bearer " \o key[1])
                     ELSE Absent]

(***************************************************************************)
(* Log entries                                                             *)
(***************************************************************************)
Request(method, url, data, headers) ==
  [data |-> data, method |-> method, url |-> url, headers |-> Some(headers),
   ev |-> "request"]

Step(ev) == [data |-> Absent, method |-> "", url |-> "", headers |-> Absent, ev |-> ev]

(***************************************************************************)
(* TransactionSigner                                                       *)
(***************************************************************************)
\* A secret: whether the string is base58, the number of bytes it decodes
\* to, and whether the key primitive accepts those bytes.
Secrets ==
  { [base58 |-> TRUE, bytes |-> 64, accepted |-> TRUE],
    [base58 |-> TRUE, bytes |-> 32, accepted |-> TRUE],
    [base58 |-> TRUE, bytes |-> 64, accepted |-> FALSE],
    [base58 |-> TRUE, bytes |-> 16, accepted |-> TRUE],
    [base58 |-> TRUE, bytes |-> 0, accepted |-> TRUE],
    [base58 |-> FALSE, bytes |-> 0, accepted |-> FALSE] }

KeyPair(secret) == [derivedFrom |-> secret]

Resolved(v) == [error |-> Absent, ok |-> TRUE, value |-> Some(v)]
Rejected(e) == [error |-> Some(e), ok |-> FALSE, value |-> Absent]

\* createKeyPairFromBase58 whose catch wraps the SigningError of the length test too.
createKeyPairFromBase58Wrapped(secret) ==
  IF secret.base58 /\ (secret.bytes = 64 \/ secret.bytes = 32) /\ secret.accepted
    THEN Resolved(KeyPair(secret))
  ELSE IF ~secret.base58
    THEN Rejected(SigningError("Failed to create keypair from private key",
                               Some(PlainError("Non-base58 character"))))
  ELSE IF secret.bytes = 64 \/ secret.bytes = 32
    THEN Rejected(SigningError("Failed to create keypair from private key",
                               Some(PlainError("Invalid key bytes"))))
  ELSE Rejected(SigningError("Failed to create keypair from private key",
                             Some(SigningError(
                               "Invalid private key length: " \o ToString(secret.bytes)
                                 \o " bytes. Expected 32 or 64 bytes.", Absent))))

\* createKeyPairFromBase58: the key pair, or the SigningError it rejects with.
createKeyPairFromBase58(secret) ==
  IF ~secret.base58
    THEN Rejected(SigningError("Failed to create keypair from private key",
                               Some(PlainError("Non-base58 character"))))
  ELSE IF secret.bytes = 64 \/ secret.bytes = 32
    THEN IF secret.accepted
           THEN Resolved(KeyPair(secret))
           ELSE Rejected(SigningError("Failed to create keypair from private key",
                                      Some(PlainError("Invalid key bytes"))))
  ELSE Rejected(SigningError(
         "Invalid private key length: " \o ToString(secret.bytes)
           \o " bytes. Expected 32 or 64 bytes.", Absent))

\* The signed wire transaction of signTransaction([signer], unsignedTx).
Signed(keyPair, unsignedTransaction) ==
  [signedBy |-> keyPair, transaction |-> unsignedTransaction]

\* getAddressFromPublicKey(keyPair.publicKey)
Address(keyPair) == [addressOf |-> keyPair]

\* bs58.encode(await signBytes(keyPair.privateKey, messageBytes))
MessageSignature(keyPair, message) == [message |-> message, signedBy |-> keyPair]

(***************************************************************************)
(* TradeService                                                            *)
(***************************************************************************)
\* (x * 100).toFixed(2) of a fraction counted in basis points.
Percent(bp) ==
  ToString(bp \div 100) \o "." \o ToString((bp % 100) \div 10) \o ToString(bp % 10)

\* validatePriceImpact testing the limit for truthiness: a limit of 0 is no limit.
validatePriceImpactTruthy(priceImpact, maxPriceImpact) ==
  IF maxPriceImpact # Absent /\ maxPriceImpact[1] # 0 /\ priceImpact > maxPriceImpact[1]
    THEN Some(ValidationError(
           "Price impact " \o Percent(priceImpact) \o "% exceeds maximum allowed "
             \o Percent(maxPriceImpact[1]) \o "%", "maxPriceImpact"))
    ELSE Absent

\* validatePriceImpact: the error it throws, if any.
validatePriceImpact(priceImpact, maxPriceImpact) ==
  IF maxPriceImpact # Absent /\ priceImpact > maxPriceImpact[1]
    THEN Some(ValidationError(
           "Price impact " \o Percent(priceImpact) \o "% exceeds maximum allowed "
             \o Percent(maxPriceImpact[1]) \o "%", "maxPriceImpact"))
    ELSE Absent

\* validatePriorityCost testing the limit for truthiness: a limit of 0 is no limit.
validatePriorityCostTruthy(priorityCost, maxPriorityCost) ==
  IF maxPriorityCost # Absent /\ maxPriorityCost[1] # 0 /\ priorityCost > maxPriorityCost[1]
    THEN Some(ValidationError(
           "Priority cost " \o ToString(priorityCost) \o " SOL exceeds maximum allowed "
             \o ToString(maxPriorityCost[1]) \o " SOL", "maxPriorityCost"))
    ELSE Absent

\* validatePriorityCost that rejects a cost equal to its limit.
validatePriorityCostAtLimit(priorityCost, maxPriorityCost) ==
  IF maxPriorityCost # Absent /\ priorityCost >= maxPriorityCost[1]
    THEN Some(ValidationError(
           "Priority cost " \o ToString(priorityCost) \o " SOL exceeds maximum allowed "
             \o ToString(maxPriorityCost[1]) \o " SOL", "maxPriorityCost"))
    ELSE Absent

\* validatePriorityCost: the error it throws, if any.
validatePriorityCost(priorityCost, maxPriorityCost) ==
  IF maxPriorityCost # Absent /\ priorityCost > maxPriorityCost[1]
    THEN Some(ValidationError(
           "Priority cost " \o ToString(priorityCost) \o " SOL exceeds maximum allowed "
             \o ToString(maxPriorityCost[1]) \o " SOL", "maxPriorityCost"))
    ELSE Absent

\* validateLimits without the call of validatePriorityCost.
validateLimitsImpactOnly(data, o) ==
  validatePriceImpact(data.estimates.priceImpact, o.maxPriceImpact)

\* validateLimits with the two calls the other way round.
validateLimitsCostFirst(data, o) ==
  IF validatePriorityCost(data.priorityCost, o.maxPriorityCost) # Absent
    THEN validatePriorityCost(data.priorityCost, o.maxPriorityCost)
    ELSE validatePriceImpact(data.estimates.priceImpact, o.maxPriceImpact)

\* The two validations in the order the methods run them: the first error thrown.
validateLimits(data, o) ==
  IF validatePriceImpact(data.estimates.priceImpact, o.maxPriceImpact) # Absent
    THEN validatePriceImpact(data.estimates.priceImpact, o.maxPriceImpact)
    ELSE validatePriorityCost(data.priorityCost, o.maxPriorityCost)

BuyOptions(maxPriceImpact, maxPriorityCost) ==
  [maxPriceImpact |-> maxPriceImpact, maxPriorityCost |-> maxPriorityCost, mint |-> "TOKEN",
   solAmount |-> 1, slippage |-> 500, priority |-> "fast"]

SellOptions(maxPriceImpact, maxPriorityCost) ==
  [maxPriceImpact |-> maxPriceImpact, maxPriorityCost |-> maxPriorityCost, mint |-> "TOKEN",
   slippage |-> 500, priority |-> "fast", tokenAmount |-> 1]

SwapOptions(maxPriceImpact, maxPriorityCost) ==
  [maxPriceImpact |-> maxPriceImpact, maxPriorityCost |-> maxPriorityCost, slippage |-> 500,
   priority |-> "fast", inputMint |-> "SOL", outputMint |-> "TOKEN", amount |-> 1,
   swapMode |-> "exactIn"]

TradeEstimates(inputAmount, outputAmount, priceImpact) ==
  [priceImpact |-> priceImpact, inputAmount |-> inputAmount, outputAmount |-> outputAmount]

TradeAmounts(inputAmount, outputAmount) ==
  [inputAmount |-> inputAmount, outputAmount |-> outputAmount]

\* The data of a build response; the backend hands out a fresh token per build.
TradeResponse(token, estimates, priorityCost) ==
  [unsignedTransaction |-> [message |-> token], priorityCost |-> priorityCost,
   estimates |-> estimates, inputMint |-> "SOL", outputMint |-> "TOKEN",
   submissionToken |-> token, expiresAt |-> token, platform |-> "pump_fun"]

\* The data of a submit response.
SubmitResponse(token, tradeResult, priorityCost) ==
  [status |-> "confirmed", priorityCost |-> priorityCost, inputMint |-> "SOL",
   outputMint |-> "TOKEN", platform |-> "pump_fun", tradeResult |-> tradeResult,
   signature |-> [of |-> token], slot |-> token]

SubmitRequest(submissionToken, signed) ==
  [signedTransaction |-> signed, submissionToken |-> submissionToken]

\* TransactionResult whose fallback takes the two estimates the wrong way round.
TransactionResultSwapped(data, sub) ==
  [status |-> sub.status, priorityCost |-> data.priorityCost, inputMint |-> sub.inputMint,
   outputMint |-> sub.outputMint, platform |-> sub.platform,
   tradeResult |-> IF sub.tradeResult # Absent THEN sub.tradeResult[1]
                   ELSE TradeAmounts(data.estimates.outputAmount,
                                     data.estimates.inputAmount),
   signature |-> sub.signature, slot |-> sub.slot]

\* TransactionResult that takes priorityCost from the submit response.
TransactionResultSubmitCost(data, sub) ==
  [status |-> sub.status, priorityCost |-> sub.priorityCost, inputMint |-> sub.inputMint,
   outputMint |-> sub.outputMint, platform |-> sub.platform,
   tradeResult |-> IF sub.tradeResult # Absent THEN sub.tradeResult[1]
                   ELSE TradeAmounts(data.estimates.inputAmount,
                                     data.estimates.outputAmount),
   signature |-> sub.signature, slot |-> sub.slot]

\* The object a trade method returns, from its build locals and the submit data.
TransactionResult(data, sub) ==
  [status |-> sub.status, priorityCost |-> data.priorityCost, inputMint |-> sub.inputMint,
   outputMint |-> sub.outputMint, platform |-> sub.platform,
   tradeResult |-> IF sub.tradeResult # Absent THEN sub.tradeResult[1]
                   ELSE TradeAmounts(data.estimates.inputAmount,
                                     data.estimates.outputAmount),
   signature |-> sub.signature, slot |-> sub.slot]

(***************************************************************************)
(* Calls                                                                   *)
(***************************************************************************)
\* The three trade methods of TradeService.
TradeOps == {"buy", "sell", "swap"}

NoOutcome == [error |-> Absent, value |-> Absent, kind |-> "none"]
Pending == [error |-> Absent, value |-> Absent, kind |-> "pending"]
Returned(v) == [error |-> Absent, value |-> Some(v), kind |-> "returned"]
Thrown(e) == [error |-> Some(e), value |-> Absent, kind |-> "thrown"]

\* The configurations an SDK instance is constructed with. The apiKey goes to
\* the HttpClient and the privateKey to the TransactionSigner and the two
\* never meet, so the empty apiKey is paired with one secret only, and so is
\* a baseUrl of the caller's.
SDKConfigs ==
  { [baseUrl |-> Absent, apiKey |-> "key-a", privateKey |-> s] : s \in Secrets }
  \cup { [baseUrl |-> Absent, apiKey |-> "", privateKey |-> s] :
           s \in {k \in Secrets : k.bytes = 64 /\ k.accepted} }
  \cup { [baseUrl |-> Some("http://localhost:3000/v1"), apiKey |-> "key-a", privateKey |-> s] :
           s \in {k \in Secrets : ~k.base58} }

\* config.baseUrl ?? 'https://api.darkfibre.dev/v1'
BaseUrl(config) ==
  IF config.baseUrl = Absent THEN "https://api.darkfibre.dev/v1" ELSE config.baseUrl[1]

\* Init of a signer whose constructor derives the key pair.
InitEager ==
  /\ \E config \in SDKConfigs :
       /\ baseUrl = BaseUrl(config)
       /\ apiKey = config.apiKey
       /\ privateKey = config.privateKey
       /\ signer = createKeyPairFromBase58(config.privateKey).value
  /\ derivations = 1
  /\ writes = 0
  /\ nextToken = 1
  /\ submitted = [t \in Tokens |-> 0]
  /\ pc = [c \in Calls |-> "idle"]
  /\ op = [c \in Calls |-> "none"]
  /\ options = [c \in Calls |-> Absent]
  /\ build = [c \in Calls |-> Absent]
  /\ signedTransaction = [c \in Calls |-> Absent]
  /\ submit = [c \in Calls |-> Absent]
  /\ failure = [c \in Calls |-> Absent]
  /\ outcome = [c \in Calls |-> NoOutcome]
  /\ log = [c \in Calls |-> <<>>]

Init ==
  /\ \E config \in SDKConfigs :
       /\ baseUrl = BaseUrl(config)
       /\ apiKey = config.apiKey
       /\ privateKey = config.privateKey
  /\ signer = Absent
  /\ derivations = 0
  /\ writes = 0
  /\ nextToken = 1
  /\ submitted = [t \in Tokens |-> 0]
  /\ pc = [c \in Calls |-> "idle"]
  /\ op = [c \in Calls |-> "none"]
  /\ options = [c \in Calls |-> Absent]
  /\ build = [c \in Calls |-> Absent]
  /\ signedTransaction = [c \in Calls |-> Absent]
  /\ submit = [c \in Calls |-> Absent]
  /\ failure = [c \in Calls |-> Absent]
  /\ outcome = [c \in Calls |-> NoOutcome]
  /\ log = [c \in Calls |-> <<>>]

\* A public method is entered: its locals are fresh and its first request goes out.
Enter(c, name, o, request) ==
  /\ pc[c] = "idle"
  /\ op' = [op EXCEPT ![c] = name]
  /\ options' = [options EXCEPT ![c] = o]
  /\ build' = [build EXCEPT ![c] = Absent]
  /\ signedTransaction' = [signedTransaction EXCEPT ![c] = Absent]
  /\ submit' = [submit EXCEPT ![c] = Absent]
  /\ failure' = [failure EXCEPT ![c] = Absent]
  /\ outcome' = [outcome EXCEPT ![c] = Pending]
  /\ log' = [log EXCEPT ![c] = request]

\* The method's promise rejects with e.
Throw(c, e) ==
  /\ pc' = [pc EXCEPT ![c] = "done"]
  /\ outcome' = [outcome EXCEPT ![c] = Thrown(e)]

\* The method's promise resolves with v.
Return(c, v) ==
  /\ pc' = [pc EXCEPT ![c] = "done"]
  /\ outcome' = [outcome EXCEPT ![c] = Returned(v)]

buy(c, o) ==
  /\ Enter(c, "buy", Some(o), <<Request("POST", "/tx/buy", Some(o), Headers(Some(apiKey)))>>)
  /\ pc' = [pc EXCEPT ![c] = "build"]
  /\ UNCHANGED <<baseUrl, apiKey, privateKey, submitted, signer, derivations, writes, nextToken>>

sell(c, o) ==
  /\ Enter(c, "sell", Some(o), <<Request("POST", "/tx/sell", Some(o), Headers(Some(apiKey)))>>)
  /\ pc' = [pc EXCEPT ![c] = "build"]
  /\ UNCHANGED <<baseUrl, apiKey, privateKey, submitted, signer, derivations, writes, nextToken>>

swap(c, o) ==
  /\ Enter(c, "swap", Some(o), <<Request("POST", "/tx/swap", Some(o), Headers(Some(apiKey)))>>)
  /\ pc' = [pc EXCEPT ![c] = "build"]
  /\ UNCHANGED <<baseUrl, apiKey, privateKey, submitted, signer, derivations, writes, nextToken>>

\* BuildResolved that calls the signer without validating the limits.
BuildResolvedUnvalidated(c, estimates, priorityCost) ==
  LET data == TradeResponse(nextToken, estimates, priorityCost)
  IN /\ pc[c] = "build"
     /\ nextToken <= MaxTokens
     /\ nextToken' = nextToken + 1
     /\ build' = [build EXCEPT ![c] = Some(data)]
     /\ signer = Absent => derivations < MaxDerivations
     /\ derivations' = IF signer = Absent THEN derivations + 1 ELSE derivations
     /\ pc' = [pc EXCEPT ![c] = IF signer = Absent THEN "createKeyPair" ELSE "sign"]
     /\ log' = [log EXCEPT ![c] = @ \o <<Step("built"), Step("signTransaction")>>]
     /\ UNCHANGED <<baseUrl, apiKey, privateKey, submitted, signer, writes, op, options,
                    signedTransaction, submit, failure, outcome>>

\* BuildResolved of a service whose sell has lost its two validation calls.
BuildResolvedSellUnvalidated(c, estimates, priorityCost) ==
  LET data == TradeResponse(nextToken, estimates, priorityCost)
      invalid == IF op[c] = "sell" THEN Absent
                 ELSE validateLimits(data, options[c][1])
  IN /\ pc[c] = "build"
     /\ nextToken <= MaxTokens
     /\ nextToken' = nextToken + 1
     /\ build' = [build EXCEPT ![c] = Some(data)]
     /\ IF invalid # Absent
          THEN /\ Throw(c, invalid[1])
               /\ log' = [log EXCEPT ![c] = @ \o <<Step("built")>>]
               /\ UNCHANGED derivations
          ELSE /\ signer = Absent => derivations < MaxDerivations
               /\ derivations' = IF signer = Absent THEN derivations + 1 ELSE derivations
               /\ pc' = [pc EXCEPT ![c] =
                           IF signer = Absent THEN "createKeyPair" ELSE "sign"]
               /\ log' = [log EXCEPT ![c] =
                            @ \o <<Step("built"), Step("validated"), Step("signTransaction")>>]
               /\ UNCHANGED outcome
     /\ UNCHANGED <<baseUrl, apiKey, privateKey, submitted, signer, writes, op, options,
                    signedTransaction, submit, failure>>

\* The build POST resolves: destructure, validate both limits, call the signer.
\* getSigner reads the cache and calls createKeyPairFromBase58 when it is empty.
BuildResolved(c, estimates, priorityCost) ==
  LET data == TradeResponse(nextToken, estimates, priorityCost)
      invalid == validateLimits(data, options[c][1])
  IN /\ pc[c] = "build"
     /\ nextToken <= MaxTokens
     /\ nextToken' = nextToken + 1
     /\ build' = [build EXCEPT ![c] = Some(data)]
     /\ IF invalid # Absent
          THEN /\ Throw(c, invalid[1])
               /\ log' = [log EXCEPT ![c] = @ \o <<Step("built")>>]
               /\ UNCHANGED derivations
          ELSE /\ signer = Absent => derivations < MaxDerivations
               /\ derivations' = IF signer = Absent THEN derivations + 1 ELSE derivations
               /\ pc' = [pc EXCEPT ![c] =
                           IF signer = Absent THEN "createKeyPair" ELSE "sign"]
               /\ log' = [log EXCEPT ![c] =
                            @ \o <<Step("built"), Step("validated"), Step("signTransaction")>>]
               /\ UNCHANGED outcome
     /\ UNCHANGED <<baseUrl, apiKey, privateKey, submitted, signer, writes, op, options,
                    signedTransaction, submit, failure>>

\* RequestRejected that sends the rejected request once more.
RequestRejectedRetried(c, error) ==
  /\ pc[c] \in {"build", "submit", "register", "profile"}
  /\ IF Cardinality({i \in DOMAIN log[c] : log[c][i] = log[c][Len(log[c])]}) = 1
       THEN /\ log' = [log EXCEPT ![c] = @ \o <<log[c][Len(log[c])]>>]
            /\ submitted' = IF pc[c] = "submit"
                              THEN [submitted EXCEPT ![build[c][1].submissionToken] = @ + 1]
                              ELSE submitted
            /\ UNCHANGED <<pc, outcome, failure>>
       ELSE /\ failure' = [failure EXCEPT ![c] = Some(error)]
            /\ Throw(c, interceptor(error))
            /\ UNCHANGED <<log, submitted>>
  /\ UNCHANGED <<baseUrl, apiKey, privateKey, signer, derivations, writes, nextToken, op, options, build,
                 signedTransaction, submit>>

\* A request rejects: the interceptor maps the error and the method rethrows it.
RequestRejected(c, error) ==
  /\ pc[c] \in {"build", "submit", "register", "profile"}
  /\ failure' = [failure EXCEPT ![c] = Some(error)]
  /\ Throw(c, interceptor(error))
  /\ UNCHANGED <<baseUrl, apiKey, privateKey, submitted, signer, derivations, writes, nextToken, op, options, build,
                 signedTransaction, submit, log>>

\* signTransaction without its catch: whatever is thrown passes as it is.
signTransactionCatchNone(error) == error

\* signTransaction's catch: a SigningError passes, anything else is wrapped.
signTransactionCatch(error) ==
  IF error.name = "SigningError" THEN error
  ELSE SigningError("Failed to sign transaction", Some(error))

\* Where a signer operation goes on once getSigner has returned the key pair.
Continuation(name) ==
  CASE name = "getWalletAddress" -> "address"
    [] name = "signMessage" -> "message"
    [] OTHER -> "sign"

\* getSigner that assigns the promise of createKeyPairFromBase58 to the cache
\* without awaiting it: a rejected derivation stays in the cache.
getSignerStoresPromise(c) ==
  LET created == createKeyPairFromBase58(privateKey)
  IN /\ pc[c] = "createKeyPair"
     /\ writes' = writes + 1
     /\ IF created.ok
          THEN /\ signer' = created.value
               /\ pc' = [pc EXCEPT ![c] = Continuation(op[c])]
               /\ UNCHANGED outcome
          ELSE /\ signer' = Some(created)
               /\ Throw(c, IF op[c] \in TradeOps
                             THEN signTransactionCatch(created.error[1])
                             ELSE created.error[1])
     /\ UNCHANGED <<baseUrl, apiKey, privateKey, submitted, derivations, nextToken, op,
                    options, build, signedTransaction, submit, failure, log>>

\* getSigner whose derivation never settles when the secret gives no key pair.
getSignerHangs(c) ==
  LET created == createKeyPairFromBase58(privateKey)
  IN /\ pc[c] = "createKeyPair"
     /\ created.ok
     /\ signer' = created.value
     /\ writes' = writes + 1
     /\ pc' = [pc EXCEPT ![c] = Continuation(op[c])]
     /\ UNCHANGED <<baseUrl, apiKey, privateKey, submitted, derivations, nextToken, op,
                    options, build, signedTransaction, submit, failure, outcome, log>>

\* getSigner resumes after createKeyPairFromBase58 and writes the cache; a
\* rejection goes through signTransaction's catch, the other two operations
\* have none.
getSigner(c) ==
  LET created == createKeyPairFromBase58(privateKey)
  IN /\ pc[c] = "createKeyPair"
     /\ IF created.ok
          THEN /\ signer' = created.value
               /\ writes' = writes + 1
               /\ pc' = [pc EXCEPT ![c] = Continuation(op[c])]
               /\ UNCHANGED outcome
          ELSE /\ Throw(c, IF op[c] \in TradeOps
                             THEN signTransactionCatch(created.error[1])
                             ELSE created.error[1])
               /\ UNCHANGED <<signer, writes>>
     /\ UNCHANGED <<baseUrl, apiKey, privateKey, submitted, derivations, nextToken, op, options, build,
                    signedTransaction, submit, failure, log>>

\* signTransaction of a service that keeps the build response in a field of
\* the instance: it signs and submits the response of the latest build.
signTransactionOfLatestBuild(c) ==
  LET latest == CHOOSE d \in Calls :
                  /\ build[d] # Absent
                  /\ \A e \in Calls : build[e] # Absent =>
                       build[e][1].submissionToken <= build[d][1].submissionToken
      signed == Signed(signer[1], build[latest][1].unsignedTransaction)
  IN /\ pc[c] = "sign"
     /\ signedTransaction' = [signedTransaction EXCEPT ![c] = Some(signed)]
     /\ log' = [log EXCEPT ![c] =
                  @ \o <<Step("signed"),
                         Request("POST", "/tx/submit",
                                 Some(SubmitRequest(build[latest][1].submissionToken, signed)),
                                 Headers(Some(apiKey)))>>]
     /\ submitted' = [submitted EXCEPT ![build[latest][1].submissionToken] = @ + 1]
     /\ pc' = [pc EXCEPT ![c] = "submit"]
     /\ UNCHANGED <<baseUrl, apiKey, privateKey, signer, derivations, writes, nextToken, op,
                    options, build, submit, failure, outcome>>

\* signTransaction of a service that keeps the submission token of its first
\* build in a field of the instance and submits that one.
signTransactionFirstToken(c) ==
  LET signed == Signed(signer[1], build[c][1].unsignedTransaction)
  IN /\ pc[c] = "sign"
     /\ signedTransaction' = [signedTransaction EXCEPT ![c] = Some(signed)]
     /\ log' = [log EXCEPT ![c] =
                  @ \o <<Step("signed"),
                         Request("POST", "/tx/submit", Some(SubmitRequest(1, signed)),
                                 Headers(Some(apiKey)))>>]
     /\ submitted' = [submitted EXCEPT ![1] = @ + 1]
     /\ pc' = [pc EXCEPT ![c] = "submit"]
     /\ UNCHANGED <<baseUrl, apiKey, privateKey, signer, derivations, writes, nextToken, op,
                    options, build, submit, failure, outcome>>

\* The transaction is decoded and signed; the submit POST goes out.
signTransaction(c) ==
  LET signed == Signed(signer[1], build[c][1].unsignedTransaction)
  IN /\ pc[c] = "sign"
     /\ signedTransaction' = [signedTransaction EXCEPT ![c] = Some(signed)]
     /\ log' = [log EXCEPT ![c] =
                  @ \o <<Step("signed"),
                         Request("POST", "/tx/submit",
                                 Some(SubmitRequest(build[c][1].submissionToken, signed)),
                                 Headers(Some(apiKey)))>>]
     /\ submitted' = [submitted EXCEPT ![build[c][1].submissionToken] = @ + 1]
     /\ pc' = [pc EXCEPT ![c] = "submit"]
     /\ UNCHANGED <<baseUrl, apiKey, privateKey, signer, derivations, writes, nextToken, op, options, build,
                    submit, failure, outcome>>

\* signTransactionFailed that swallows the error and submits the unsigned transaction.
signTransactionFailedSubmits(c, cause) ==
  /\ pc[c] = "sign"
  /\ log' = [log EXCEPT ![c] =
               @ \o <<Request("POST", "/tx/submit",
                              Some(SubmitRequest(build[c][1].submissionToken,
                                                 build[c][1].unsignedTransaction)),
                              Headers(Some(apiKey)))>>]
  /\ submitted' = [submitted EXCEPT ![build[c][1].submissionToken] = @ + 1]
  /\ pc' = [pc EXCEPT ![c] = "submit"]
  /\ UNCHANGED <<baseUrl, apiKey, privateKey, signer, derivations, writes, nextToken, op, options, build,
                 signedTransaction, submit, failure, outcome>>

\* signTransactionFailed of a signer that drops its cached key pair when
\* signing fails.
signTransactionFailedClearsCache(c, cause) ==
  /\ pc[c] = "sign"
  /\ Throw(c, signTransactionCatch(cause))
  /\ signer' = Absent
  /\ UNCHANGED <<baseUrl, apiKey, privateKey, submitted, derivations, writes, nextToken, op,
                 options, build, signedTransaction, submit, failure, log>>

\* Decoding or the signing primitive throws.
signTransactionFailed(c, cause) ==
  /\ pc[c] = "sign"
  /\ Throw(c, signTransactionCatch(cause))
  /\ UNCHANGED <<baseUrl, apiKey, privateKey, submitted, signer, derivations, writes, nextToken, op, options, build,
                 signedTransaction, submit, failure, log>>

\* The submit POST resolves: merge and return.
SubmitResolved(c, tradeResult, priorityCost) ==
  LET sub == SubmitResponse(build[c][1].submissionToken, tradeResult, priorityCost)
  IN /\ pc[c] = "submit"
     /\ submit' = [submit EXCEPT ![c] = Some(sub)]
     /\ Return(c, TransactionResult(build[c][1], sub))
     /\ UNCHANGED <<baseUrl, apiKey, privateKey, submitted, signer, derivations, writes, nextToken, op, options, build,
                    signedTransaction, failure, log>>

(***************************************************************************)
(* TransactionSigner: getWalletAddress and signMessage                     *)
(***************************************************************************)
\* getWalletAddress whose getSigner does not look at the cache.
getWalletAddressAlwaysDerives(c) ==
  /\ Enter(c, "getWalletAddress", Absent,
           <<Step("getWalletAddress"), Step("createKeyPair")>>)
  /\ derivations < MaxDerivations
  /\ derivations' = derivations + 1
  /\ pc' = [pc EXCEPT ![c] = "createKeyPair"]
  /\ UNCHANGED <<baseUrl, apiKey, privateKey, submitted, signer, writes, nextToken>>

\* getWalletAddress is entered; getSigner reads the cache and calls
\* createKeyPairFromBase58 when it is empty.
getWalletAddress(c) ==
  /\ Enter(c, "getWalletAddress", Absent,
           IF signer = Absent
             THEN <<Step("getWalletAddress"), Step("createKeyPair")>>
             ELSE <<Step("getWalletAddress")>>)
  /\ signer = Absent => derivations < MaxDerivations
  /\ derivations' = IF signer = Absent THEN derivations + 1 ELSE derivations
  /\ pc' = [pc EXCEPT ![c] = IF signer = Absent THEN "createKeyPair" ELSE "address"]
  /\ UNCHANGED <<baseUrl, apiKey, privateKey, submitted, signer, writes, nextToken>>

\* getAddressFromPublicKey resolves: the address is returned.
getWalletAddressResolved(c) ==
  /\ pc[c] = "address"
  /\ Return(c, Address(signer[1]))
  /\ UNCHANGED <<baseUrl, apiKey, privateKey, submitted, signer, derivations, writes, nextToken, op,
                 options, build, signedTransaction, submit, failure, log>>

\* signMessage is entered; getSigner as above.
signMessage(c, message) ==
  /\ Enter(c, "signMessage", Some([message |-> message]),
           IF signer = Absent
             THEN <<Step("signMessage"), Step("createKeyPair")>>
             ELSE <<Step("signMessage")>>)
  /\ signer = Absent => derivations < MaxDerivations
  /\ derivations' = IF signer = Absent THEN derivations + 1 ELSE derivations
  /\ pc' = [pc EXCEPT ![c] = IF signer = Absent THEN "createKeyPair" ELSE "message"]
  /\ UNCHANGED <<baseUrl, apiKey, privateKey, submitted, signer, writes, nextToken>>

\* signBytes resolves: the encoded signature is returned.
signMessageResolved(c) ==
  /\ pc[c] = "message"
  /\ Return(c, MessageSignature(signer[1], options[c][1].message))
  /\ UNCHANGED <<baseUrl, apiKey, privateKey, submitted, signer, derivations, writes, nextToken, op,
                 options, build, signedTransaction, submit, failure, log>>

\* getAddressFromPublicKey or signBytes throws; neither method has a catch.
signerPrimitiveFailed(c, cause) ==
  /\ pc[c] \in {"address", "message"}
  /\ Throw(c, cause)
  /\ UNCHANGED <<baseUrl, apiKey, privateKey, submitted, signer, derivations, writes, nextToken, op,
                 options, build, signedTransaction, submit, failure, log>>

(***************************************************************************)
(* DarkfibreSDK: register and getProfile                                   *)
(***************************************************************************)
\* `${MESSAGE_PREFIX}${timestamp}`
RegisterMessage(timestamp) == "darkfibre:" \o ToString(timestamp)

RegisterRequest(keyPair, timestamp) ==
  [message |-> RegisterMessage(timestamp),
   signature |-> MessageSignature(keyPair, RegisterMessage(timestamp)),
   walletAddress |-> Address(keyPair)]

\* The static register is entered; it derives a key pair of its own.
register(c, secret) ==
  /\ Enter(c, "register", Some([privateKey |-> secret]), <<Step("createKeyPair")>>)
  /\ pc' = [pc EXCEPT ![c] = "registerKeyPair"]
  /\ UNCHANGED <<baseUrl, apiKey, privateKey, submitted, signer, derivations, writes, nextToken>>

\* createKeyPairFromBase58 settles; its rejection leaves register as it is.
registerKeyPair(c) ==
  LET created == createKeyPairFromBase58(options[c][1].privateKey)
  IN /\ pc[c] = "registerKeyPair"
     /\ IF created.ok
          THEN /\ pc' = [pc EXCEPT ![c] = "registerSign"]
               /\ UNCHANGED outcome
          ELSE Throw(c, created.error[1])
     /\ UNCHANGED <<baseUrl, apiKey, privateKey, submitted, signer, derivations, writes, nextToken, op, options, build,
                    signedTransaction, submit, failure, log>>

\* registerSigned that puts the secret it was given into the body.
registerSignedSendsSecret(c, timestamp) ==
  LET keyPair == createKeyPairFromBase58(options[c][1].privateKey).value[1]
      body == [privateKey |-> options[c][1].privateKey,
               message |-> RegisterMessage(timestamp),
               signature |-> MessageSignature(keyPair, RegisterMessage(timestamp)),
               walletAddress |-> Address(keyPair)]
  IN /\ pc[c] = "registerSign"
     /\ log' = [log EXCEPT ![c] =
                  @ \o <<Step("signed"),
                         Request("POST", "/auth/register", Some(body), Headers(Absent))>>]
     /\ pc' = [pc EXCEPT ![c] = "register"]
     /\ UNCHANGED <<baseUrl, apiKey, privateKey, submitted, signer, derivations, writes, nextToken, op,
                    options, build, signedTransaction, submit, failure, outcome>>

\* registerSigned that signs the timestamp without the prefix.
registerSignedBareTimestamp(c, timestamp) ==
  LET keyPair == createKeyPairFromBase58(options[c][1].privateKey).value[1]
      body == [message |-> RegisterMessage(timestamp),
               signature |-> MessageSignature(keyPair, ToString(timestamp)),
               walletAddress |-> Address(keyPair)]
  IN /\ pc[c] = "registerSign"
     /\ log' = [log EXCEPT ![c] =
                  @ \o <<Step("signed"),
                         Request("POST", "/auth/register", Some(body), Headers(Absent))>>]
     /\ pc' = [pc EXCEPT ![c] = "register"]
     /\ UNCHANGED <<baseUrl, apiKey, privateKey, submitted, signer, derivations, writes, nextToken, op,
                    options, build, signedTransaction, submit, failure, outcome>>

\* The address is derived and the message signed at time `timestamp`; the
\* POST goes out through a client without credential.
registerSigned(c, timestamp) ==
  LET keyPair == createKeyPairFromBase58(options[c][1].privateKey).value[1]
  IN /\ pc[c] = "registerSign"
     /\ log' = [log EXCEPT ![c] =
                  @ \o <<Step("signed"),
                         Request("POST", "/auth/register",
                                 Some(RegisterRequest(keyPair, timestamp)),
                                 Headers(Absent))>>]
     /\ pc' = [pc EXCEPT ![c] = "register"]
     /\ UNCHANGED <<baseUrl, apiKey, privateKey, submitted, signer, derivations, writes, nextToken, op, options, build,
                    signedTransaction, submit, failure, outcome>>

\* registerSignFailed of a register that issues its POST before the signature
\* has been awaited.
registerSignFailedAfterPost(c, cause) ==
  LET keyPair == createKeyPairFromBase58(options[c][1].privateKey).value[1]
  IN /\ pc[c] = "registerSign"
     /\ log' = [log EXCEPT ![c] =
                  @ \o <<Request("POST", "/auth/register",
                                 Some(RegisterRequest(keyPair, 1)), Headers(Absent))>>]
     /\ Throw(c, cause)
     /\ UNCHANGED <<baseUrl, apiKey, privateKey, submitted, signer, derivations, writes, nextToken, op,
                    options, build, signedTransaction, submit, failure>>

\* getAddressFromPublicKey or signBytes throws; register has no catch.
registerSignFailed(c, cause) ==
  /\ pc[c] = "registerSign"
  /\ Throw(c, cause)
  /\ UNCHANGED <<baseUrl, apiKey, privateKey, submitted, signer, derivations, writes, nextToken, op, options, build,
                 signedTransaction, submit, failure, log>>

\* RegisterResolved of a register that keeps the issued key as the credential.
RegisterResolvedStoresKey(c, data) ==
     /\ pc[c] = "register"
     /\ submit' = [submit EXCEPT ![c] = Some(data)]
     /\ Return(c, data)
     /\ apiKey' = data.apiKey
     /\ UNCHANGED <<baseUrl, privateKey, submitted, signer, derivations, writes, nextToken, op,
                    options, build, signedTransaction, failure, log>>

\* The register POST resolves: the data of the response is returned.
RegisterResolved(c, data) ==
     /\ pc[c] = "register"
     /\ submit' = [submit EXCEPT ![c] = Some(data)]
     /\ Return(c, data)
     /\ UNCHANGED <<baseUrl, apiKey, privateKey, submitted, signer, derivations, writes, nextToken, op, options, build,
                    signedTransaction, failure, log>>

getProfile(c) ==
  /\ Enter(c, "getProfile", Absent, <<Request("GET", "/auth/profile", Absent, Headers(Some(apiKey)))>>)
  /\ pc' = [pc EXCEPT ![c] = "profile"]
  /\ UNCHANGED <<baseUrl, apiKey, privateKey, submitted, signer, derivations, writes, nextToken>>

\* ProfileResolved that returns the body of the response, not its data.
ProfileResolvedEnvelope(c, profile) ==
  /\ pc[c] = "profile"
  /\ submit' = [submit EXCEPT ![c] = Some(profile)]
  /\ Return(c, [data |-> profile])
  /\ UNCHANGED <<baseUrl, apiKey, privateKey, submitted, signer, derivations, writes, nextToken, op,
                 options, build, signedTransaction, failure, log>>

\* The profile GET resolves: its data is returned.
ProfileResolved(c, profile) ==
  /\ pc[c] = "profile"
  /\ submit' = [submit EXCEPT ![c] = Some(profile)]
  /\ Return(c, profile)
  /\ UNCHANGED <<baseUrl, apiKey, privateKey, submitted, signer, derivations, writes, nextToken, op, options, build,
                 signedTransaction, failure, log>>

\* The caller has awaited the call and taken its outcome; the call's frame is
\* gone and the caller is free to issue its next call.
Settle(c) ==
  /\ pc[c] = "done"
  /\ pc' = [pc EXCEPT ![c] = "idle"]
  /\ op' = [op EXCEPT ![c] = "none"]
  /\ options' = [options EXCEPT ![c] = Absent]
  /\ build' = [build EXCEPT ![c] = Absent]
  /\ signedTransaction' = [signedTransaction EXCEPT ![c] = Absent]
  /\ submit' = [submit EXCEPT ![c] = Absent]
  /\ failure' = [failure EXCEPT ![c] = Absent]
  /\ outcome' = [outcome EXCEPT ![c] = NoOutcome]
  /\ log' = [log EXCEPT ![c] = <<>>]
  /\ UNCHANGED <<baseUrl, apiKey, privateKey, submitted, signer, derivations, writes, nextToken>>

(***************************************************************************)
(* Specification: one caller that awaits each call before the next.        *)
(***************************************************************************)
LimitOptions == Optional(Limits)

SigningCauses == {PlainError("Failed to decode transaction"),
                  PlainError("Signing failed")}

Timestamps == 1..MaxTime

\* The keys the backend hands out on registration.
IssuedKeys == {"key-a", "key-b"}

\* The addresses a registration response can name.
Addresses == {Address(KeyPair(s)) : s \in {k \in Secrets : createKeyPairFromBase58(k).ok}}

RegisterResults == {[apiKey |-> k, walletAddress |-> w] : k \in IssuedKeys, w \in Addresses}

ProfileResults ==
  { [walletAddress |-> "wallet", createdAt |-> t,
     volume |-> [sol30d |-> 0, trades30d |-> 0],
     fee |-> [bps |-> 100, decimal |-> 1, nextBps |-> n, nextThresholdSol |-> n]]
    : t \in Timestamps, n \in Optional({50}) }

\* The texts signMessage is called with.
Messages == {"hello"}

TradeAmountsSet == {TradeAmounts(a, b) : a \in Amounts, b \in Amounts}

\* The caller's calls follow one another in the first call slot.
Caller == {c \in Calls : \A d \in Calls : c <= d}

Next ==
  \/ \E c \in Caller, i \in LimitOptions, p \in LimitOptions : buy(c, BuyOptions(i, p))
  \/ \E c \in Caller, i \in LimitOptions, p \in LimitOptions : sell(c, SellOptions(i, p))
  \/ \E c \in Caller, i \in LimitOptions, p \in LimitOptions : swap(c, SwapOptions(i, p))
  \/ \E c \in Caller, a \in Amounts, b \in Amounts, i \in Impacts, p \in Costs :
       BuildResolved(c, TradeEstimates(a, b, i), p)
  \/ \E c \in Caller, e \in AxiosErrors : RequestRejected(c, e)
  \/ \E c \in Caller : getSigner(c)
  \/ \E c \in Caller : signTransaction(c)
  \/ \E c \in Caller, e \in SigningCauses : signTransactionFailed(c, e)
  \/ \E c \in Caller, r \in Optional(TradeAmountsSet), p \in Costs :
       SubmitResolved(c, r, p)
  \/ \E c \in Caller, k \in Secrets : register(c, k)
  \/ \E c \in Caller : registerKeyPair(c)
  \/ \E c \in Caller, t \in Timestamps : registerSigned(c, t)
  \/ \E c \in Caller, e \in SigningCauses : registerSignFailed(c, e)
  \/ \E c \in Caller, r \in RegisterResults : RegisterResolved(c, r)
  \/ \E c \in Caller : getWalletAddress(c)
  \/ \E c \in Caller : getWalletAddressResolved(c)
  \/ \E c \in Caller, m \in Messages : signMessage(c, m)
  \/ \E c \in Caller : signMessageResolved(c)
  \/ \E c \in Caller, e \in SigningCauses : signerPrimitiveFailed(c, e)
  \/ \E c \in Caller : getProfile(c)
  \/ \E c \in Caller, r \in ProfileResults : ProfileResolved(c, r)
  \/ \E c \in Caller : Settle(c)

Spec == Init /\ [][Next]_vars

(***************************************************************************)
(* Specification: one caller, with every await settling. A request         *)
(* responds, errors or times out (the client sets a timeout of 30 s), and   *)
(* a call of a key or signing primitive returns or throws: the step that    *)
(* resumes an open call is taken eventually.                                *)
(***************************************************************************)
\* The awaited request or primitive of call c settles and the call resumes.
Resume(c) ==
  \/ \E a \in Amounts, b \in Amounts, i \in Impacts, p \in Costs :
       BuildResolved(c, TradeEstimates(a, b, i), p)
  \/ \E e \in AxiosErrors : RequestRejected(c, e)
  \/ getSigner(c)
  \/ signTransaction(c)
  \/ \E e \in SigningCauses : signTransactionFailed(c, e)
  \/ \E r \in Optional(TradeAmountsSet), p \in Costs : SubmitResolved(c, r, p)
  \/ registerKeyPair(c)
  \/ \E t \in Timestamps : registerSigned(c, t)
  \/ \E e \in SigningCauses : registerSignFailed(c, e)
  \/ \E r \in RegisterResults : RegisterResolved(c, r)
  \/ getWalletAddressResolved(c)
  \/ signMessageResolved(c)
  \/ \E e \in SigningCauses : signerPrimitiveFailed(c, e)
  \/ \E r \in ProfileResults : ProfileResolved(c, r)

SpecLive == Init /\ [][Next]_vars /\ \A c \in Caller : WF_vars(Resume(c))

(***************************************************************************)
(* Specification: calls in flight together on one instance. Every call     *)
(* slot runs a call of its own; the steps of the calls interleave at       *)
(* their awaits. The inputs are fewer than with one caller: an instance    *)
(* with a secret of 64 bytes or one of 16 bytes, one limit, the two costs  *)
(* around it, one failure of the transport and one of signing.             *)
(***************************************************************************)
ConcurrentConfigs ==
  {config \in SDKConfigs :
     /\ config.apiKey # ""
     /\ config.privateKey.accepted
     /\ config.privateKey.bytes \in {64, 16}}

InitConcurrent ==
  /\ Init
  /\ \E config \in ConcurrentConfigs :
       /\ baseUrl = BaseUrl(config)
       /\ apiKey = config.apiKey
       /\ privateKey = config.privateKey

ConcurrentLimit == Some(0)

ConcurrentEstimates == TradeEstimates(1, 2, 0)

ConcurrentFailure ==
  AxiosError("ERR_BAD_RESPONSE", "Request failed",
             Some([status |-> 401,
                   data |-> Some([error |-> Some([message |-> "Invalid API key",
                                                  code |-> "UNAUTHORIZED"])])]))

ConcurrentCause == PlainError("Signing failed")

NextConcurrent ==
  \/ \E c \in Calls : buy(c, BuyOptions(Absent, ConcurrentLimit))
  \/ \E c \in Calls : sell(c, SellOptions(Absent, ConcurrentLimit))
  \/ \E c \in Calls : swap(c, SwapOptions(Absent, ConcurrentLimit))
  \/ \E c \in Calls, p \in Costs : BuildResolved(c, ConcurrentEstimates, p)
  \/ \E c \in Calls : RequestRejected(c, ConcurrentFailure)
  \/ \E c \in Calls : getSigner(c)
  \/ \E c \in Calls : signTransaction(c)
  \/ \E c \in Calls : signTransactionFailed(c, ConcurrentCause)
  \/ \E c \in Calls : SubmitResolved(c, Absent, 0)
  \/ \E c \in Calls : getWalletAddress(c)
  \/ \E c \in Calls : getWalletAddressResolved(c)
  \/ \E c \in Calls : Settle(c)

SpecConcurrent == InitConcurrent /\ [][NextConcurrent]_vars

(***************************************************************************)
(* Properties                                                              *)
(***************************************************************************)
BuildUrls == {"/tx/buy", "/tx/sell", "/tx/swap"}

IsBuildRequest(x) == x.ev = "request" /\ x.method = "POST" /\ x.url \in BuildUrls

IsSubmitRequest(x) == x.ev = "request" /\ x.method = "POST" /\ x.url = "/tx/submit"

\* The positions of the log of call c that satisfy P.
Positions(c, P(_)) == {i \in DOMAIN log[c] : P(log[c][i])}

IsBuilt(x) == x.ev = "built"
IsValidated(x) == x.ev = "validated"
IsSignerCall(x) == x.ev = "signTransaction"
IsSigned(x) == x.ev = "signed"

\* Every position of P in the log of c has a position of Q before it.
Precedes(c, Q(_), P(_)) ==
  \A i \in Positions(c, P) : \E j \in Positions(c, Q) : j < i

Trades == {c \in Calls : op[c] \in TradeOps}

ThrownError(c) == outcome[c].error[1]

\* C1: within one buy, sell or swap call the build POST completes before the
\* limits are validated, the limits pass before the signer is invoked, and
\* signing completes before the POST to /tx/submit is issued.
C1_Order ==
  \A c \in Trades :
    /\ Precedes(c, IsBuildRequest, IsBuilt)
    /\ Precedes(c, IsBuilt, IsValidated)
    /\ Precedes(c, IsValidated, IsSignerCall)
    /\ Precedes(c, IsSignerCall, IsSigned)
    /\ Precedes(c, IsSigned, IsSubmitRequest)
    /\ Positions(c, IsSignerCall) # {} =>
         /\ build[c] # Absent
         /\ \A m \in Limits :
              options[c][1].maxPriceImpact = Some(m)
                => build[c][1].estimates.priceImpact <= m
         /\ \A m \in Limits :
              options[c][1].maxPriorityCost = Some(m)
                => build[c][1].priorityCost <= m
    /\ Positions(c, IsSubmitRequest) # {} => signedTransaction[c] # Absent

\* C1 witness: a trade call has gone through all four steps and returned.
C1_Witness ==
  \E c \in Trades :
    /\ outcome[c].kind = "returned"
    /\ Positions(c, IsSubmitRequest) # {}
    /\ options[c][1].maxPriceImpact # Absent

ExceedsPriceImpact(c) ==
  /\ build[c] # Absent
  /\ \E m \in Limits :
       /\ options[c][1].maxPriceImpact = Some(m)
       /\ build[c][1].estimates.priceImpact > m

ExceedsPriorityCost(c) ==
  /\ build[c] # Absent
  /\ \E m \in Limits :
       /\ options[c][1].maxPriorityCost = Some(m)
       /\ build[c][1].priorityCost > m

FailsValidation(c, field) ==
  /\ outcome[c].kind = "thrown"
  /\ ThrownError(c).name = "ValidationError"
  /\ ThrownError(c).field = field

\* C2: a build response whose priceImpact is greater than the request's
\* maxPriceImpact makes the call fail with ValidationError(field
\* 'maxPriceImpact'); the signer is not invoked and nothing is submitted.
C2_PriceImpactLimit ==
  \A c \in Trades :
    ExceedsPriceImpact(c) =>
      /\ FailsValidation(c, "maxPriceImpact")
      /\ Positions(c, IsSignerCall) = {}
      /\ Positions(c, IsSubmitRequest) = {}
      /\ signedTransaction[c] = Absent

\* C2 witness: a call failed on its price impact although its priority cost passed.
C2_Witness ==
  \E c \in Trades :
    /\ ExceedsPriceImpact(c)
    /\ ~ExceedsPriorityCost(c)
    /\ outcome[c].kind = "thrown"

\* C3 as stated: a build response whose priorityCost is greater than the
\* request's maxPriorityCost makes the call fail with ValidationError(field
\* 'maxPriorityCost') and nothing is submitted.
C3_AsStated ==
  \A c \in Trades :
    ExceedsPriorityCost(c) =>
      /\ FailsValidation(c, "maxPriorityCost")
      /\ Positions(c, IsSubmitRequest) = {}

\* C3 as amended: a build response whose priorityCost is greater than the
\* request's maxPriorityCost makes the call fail with a ValidationError and
\* nothing is submitted; the field is 'maxPriorityCost' unless the price impact
\* exceeds maxPriceImpact as well, and then the field is 'maxPriceImpact'.
C3_PriorityCostLimit ==
  \A c \in Trades :
    ExceedsPriorityCost(c) =>
      /\ FailsValidation(c, IF ExceedsPriceImpact(c) THEN "maxPriceImpact"
                            ELSE "maxPriorityCost")
      /\ Positions(c, IsSubmitRequest) = {}

\* C3 witness: a call failed on its priority cost alone.
C3_Witness ==
  \E c \in Trades :
    /\ ExceedsPriorityCost(c)
    /\ ~ExceedsPriceImpact(c)
    /\ FailsValidation(c, "maxPriorityCost")

ReturnedTrades == {c \in Trades : outcome[c].kind = "returned"}

Result(c) == outcome[c].value[1]

\* C4: the returned tradeResult is the submit response's tradeResult when it
\* is present and the input and output amount of the build estimates when it
\* is null; it is never null.
C4_TradeResultFallback ==
  \A c \in ReturnedTrades :
    /\ submit[c][1].tradeResult = Absent =>
         /\ Result(c).tradeResult.inputAmount = build[c][1].estimates.inputAmount
         /\ Result(c).tradeResult.outputAmount = build[c][1].estimates.outputAmount
    /\ submit[c][1].tradeResult # Absent =>
         Result(c).tradeResult = submit[c][1].tradeResult[1]
    /\ Result(c).tradeResult \in TradeAmountsSet

\* C4 witness: a call returned on a submit response without tradeResult, with
\* estimates whose input and output amount differ.
C4_Witness ==
  \E c \in ReturnedTrades :
    /\ submit[c][1].tradeResult = Absent
    /\ build[c][1].estimates.inputAmount # build[c][1].estimates.outputAmount

\* C5: the returned priorityCost is the priorityCost of the build response,
\* whatever the submit response reports.
C5_PriorityCostFromBuild ==
  \A c \in ReturnedTrades : Result(c).priorityCost = build[c][1].priorityCost

\* C5 witness: a call returned although submit reported another priorityCost.
C5_Witness ==
  \E c \in ReturnedTrades : submit[c][1].priorityCost # build[c][1].priorityCost

\* C6: a result returned for a request that supplied maxPriorityCost has a
\* priorityCost not greater than that maxPriorityCost.
C6_ReturnedCostWithinLimit ==
  \A c \in ReturnedTrades :
    \A m \in Limits :
      options[c][1].maxPriorityCost = Some(m) => Result(c).priorityCost <= m

\* C6 witness: a call with a maxPriorityCost returned, and the submit response
\* reported a cost above that limit.
C6_Witness ==
  \E c \in ReturnedTrades :
    \E m \in Limits :
      /\ options[c][1].maxPriorityCost = Some(m)
      /\ submit[c][1].priorityCost > m

IsRequest(x) == x.ev = "request"

\* C7: a trade call issues at most one POST to its build endpoint and at most
\* one POST to /tx/submit, and nothing else; a call that returned issued
\* exactly one build POST to the endpoint of its operation and then exactly
\* one submit POST.
C7_SingleAttempt ==
  \A c \in Trades :
    /\ Cardinality(Positions(c, IsBuildRequest)) <= 1
    /\ Cardinality(Positions(c, IsSubmitRequest)) <= 1
    /\ Positions(c, IsRequest)
         = Positions(c, IsBuildRequest) \cup Positions(c, IsSubmitRequest)
    /\ outcome[c].kind = "returned" =>
         /\ Cardinality(Positions(c, IsBuildRequest)) = 1
         /\ Cardinality(Positions(c, IsSubmitRequest)) = 1
         /\ log[c][1].url = "/tx/" \o op[c]
         /\ Precedes(c, IsBuildRequest, IsSubmitRequest)

\* C7 witness: a call failed on its submit POST, having issued its two requests.
C7_Witness ==
  \E c \in Trades :
    /\ outcome[c].kind = "thrown"
    /\ failure[c] # Absent
    /\ Cardinality(Positions(c, IsRequest)) = 2

\* A call that has thrown keeps its error and its log until the caller takes it.
C8_Final ==
  \A c \in Calls :
    outcome[c].kind = "thrown" =>
      \/ outcome'[c] = outcome[c] /\ log'[c] = log[c] /\ pc'[c] = pc[c]
      \/ pc'[c] = "idle" /\ log'[c] = <<>>

C8_Aborted ==
  \A c \in Trades :
    /\ outcome[c].kind = "thrown" => pc[c] = "done" /\ outcome[c].value = Absent
    /\ failure[c] # Absent =>
         /\ outcome[c].kind = "thrown"
         /\ ThrownError(c).name \in {"APIError", "AxiosError"}
    /\ failure[c] # Absent /\ build[c] = Absent =>
         /\ Len(log[c]) = 1
         /\ IsBuildRequest(log[c][1])
         /\ signedTransaction[c] = Absent
    /\ outcome[c].kind = "thrown" /\ ThrownError(c).name = "SigningError" =>
         /\ Positions(c, IsSubmitRequest) = {}
         /\ failure[c] = Absent
    /\ Positions(c, IsSubmitRequest) # {} =>
         /\ signedTransaction[c] # Absent
         /\ Precedes(c, IsSigned, IsSubmitRequest)
    /\ failure[c] # Absent /\ build[c] # Absent =>
         /\ submit[c] = Absent
         /\ IsSubmitRequest(log[c][Len(log[c])])
         /\ Cardinality(Positions(c, IsRequest)) = 2

\* C8: a failure at any stage of a trade call aborts it with that error: a
\* failed build POST is followed by no validation, signing or submit; a failed
\* signing by no submit; a failed submit POST by no result and no further
\* request.
C8_FailureAborts == []C8_Aborted /\ [][C8_Final]_vars

\* C8 witness: a submit POST timed out and the call threw.
C8_Witness ==
  \E c \in Trades :
    /\ failure[c] # Absent
    /\ failure[c][1].code = "ETIMEDOUT"
    /\ build[c] # Absent
    /\ outcome[c].kind = "thrown"

\* C9: every failure of a public operation reaches the caller as a
\* ValidationError, a SigningError or an APIError.
C9_ThreeKinds ==
  \A c \in Calls :
    op[c] \in TradeOps \cup {"register", "getProfile"} /\ outcome[c].kind = "thrown" =>
      ThrownError(c).name \in {"ValidationError", "SigningError", "APIError"}

IsTimeout(e) == e.code \in {"ECONNABORTED", "ETIMEDOUT"}

HasStructuredBody(e) ==
  /\ e.response # Absent
  /\ e.response[1].data # Absent
  /\ e.response[1].data[1].error # Absent

\* C10: a failed request is mapped by the first rule that matches: a timeout
\* code gives APIError('TIMEOUT', 'Request timed out', 408), also when a
\* response body is present; else a structured body gives APIError(code,
\* message, HTTP status); else no response gives APIError('NETWORK_ERROR',
\* the error's message or a default when that is empty, 0); else the error
\* is rethrown as it is.
C10_ErrorMapping ==
  \A c \in Calls :
    failure[c] # Absent =>
      LET e == failure[c][1]
          t == ThrownError(c)
      IN /\ outcome[c].kind = "thrown"
         /\ IsTimeout(e) =>
              /\ t.name = "APIError" /\ t.code = "TIMEOUT"
              /\ t.message = "Request timed out" /\ t.status = 408
         /\ ~IsTimeout(e) /\ HasStructuredBody(e) =>
              /\ t.name = "APIError"
              /\ t.code = e.response[1].data[1].error[1].code
              /\ t.message = e.response[1].data[1].error[1].message
              /\ t.status = e.response[1].status
         /\ ~IsTimeout(e) /\ ~HasStructuredBody(e) /\ e.response = Absent =>
              /\ t.name = "APIError" /\ t.code = "NETWORK_ERROR" /\ t.status = 0
              /\ e.message # "" => t.message = e.message
              /\ e.message = "" => t.message = "Network error occurred"
         /\ ~IsTimeout(e) /\ ~HasStructuredBody(e) /\ e.response # Absent =>
              t = e

\* C10 witness: a request was aborted with a structured body at hand, and the
\* call threw the timeout error.
C10_Witness ==
  \E c \in Calls :
    /\ failure[c] # Absent
    /\ IsTimeout(failure[c][1])
    /\ HasStructuredBody(failure[c][1])
    /\ outcome[c].kind = "thrown"
    /\ ThrownError(c).code = "TIMEOUT"

\* The calls that go through the client of the SDK instance.
InstanceCalls == {c \in Calls : op[c] \in TradeOps \cup {"getProfile"}}

StructuredBody(e) == e.response[1].data[1].error[1]

WrongLength(secret) == secret.base58 /\ secret.bytes # 32 /\ secret.bytes # 64

LengthMessage(bytes) ==
  "Invalid private key length: " \o ToString(bytes) \o " bytes. Expected 32 or 64 bytes."

\* The calls that have called getSigner.
SignerCalls ==
  {c \in Calls : (op[c] \in TradeOps /\ Positions(c, IsSignerCall) # {})
                   \/ op[c] \in {"getWalletAddress", "signMessage"}}

Registrations == {c \in Calls : op[c] = "register"}

FailsOnLength(c, bytes) ==
  /\ pc[c] = "done"
  /\ outcome[c].kind = "thrown"
  /\ ThrownError(c).name = "SigningError"
  /\ ThrownError(c).message = LengthMessage(bytes)

\* C12: a secret that decodes to a byte length other than 32 or 64 makes key
\* derivation fail with a SigningError whose message states that byte count:
\* every operation of a signer constructed with it, and every registration
\* with it, fails so once its derivation has settled, and no key pair is
\* produced or cached.
C12_WrongLengthRejected ==
  /\ WrongLength(privateKey) =>
       /\ signer = Absent
       /\ writes = 0
       /\ \A c \in SignerCalls :
            /\ (pc[c] = "createKeyPair" \/ FailsOnLength(c, privateKey.bytes))
            /\ signedTransaction[c] = Absent
            /\ Positions(c, IsSubmitRequest) = {}
  /\ \A c \in Registrations :
       WrongLength(options[c][1].privateKey) =>
         pc[c] = "registerKeyPair" \/ FailsOnLength(c, options[c][1].privateKey.bytes)

\* C12 witness: a trade call on a signer whose secret decodes to 16 bytes
\* failed after its derivation, and a derivation before it had failed too.
C12_Witness ==
  \E c \in Trades :
    /\ privateKey.base58
    /\ privateKey.bytes = 16
    /\ derivations = 2
    /\ FailsOnLength(c, 16)

StartsWith(text, prefix) ==
  Len(text) >= Len(prefix) /\ SubSeq(text, 1, Len(prefix)) = prefix

IsRegisterRequest(x) == x.ev = "request" /\ x.method = "POST" /\ x.url = "/auth/register"

\* C13: a register call whose key derivation, address derivation or message
\* signing fails is rejected before any network call: it has issued no
\* request, and for a secret of wrong length the message of its error begins
\* with 'Invalid private key length'.
C13_RegisterRejectedLocally ==
  \A c \in Registrations :
    /\ ~createKeyPairFromBase58(options[c][1].privateKey).ok =>
         /\ Positions(c, IsRequest) = {}
         /\ pc[c] = "registerKeyPair"
              \/ (outcome[c].kind = "thrown"
                    /\ ThrownError(c) = createKeyPairFromBase58(options[c][1].privateKey).error[1])
    /\ outcome[c].kind = "thrown" /\ failure[c] = Absent =>
         Positions(c, IsRequest) = {}
    /\ outcome[c].kind = "thrown" /\ WrongLength(options[c][1].privateKey) =>
         /\ ThrownError(c).name = "SigningError"
         /\ StartsWith(ThrownError(c).message, "Invalid private key length")
    /\ Positions(c, IsRequest) # {} =>
         /\ Positions(c, IsRequest) = Positions(c, IsRegisterRequest)
         /\ Precedes(c, IsSigned, IsRegisterRequest)

\* C13 witness: a registration with a secret of 16 bytes was rejected.
C13_Witness ==
  \E c \in Registrations :
    /\ options[c][1].privateKey.base58
    /\ options[c][1].privateKey.bytes = 16
    /\ outcome[c].kind = "thrown"
    /\ Positions(c, IsRequest) = {}

\* The body of the last request of call c.
LastBody(c) == log[c][Len(log[c])].data[1]

\* C14: a register call that has posted has issued exactly one request, a POST
\* to /auth/register whose body is {walletAddress, message, signature}:
\* message is 'darkfibre:' followed by the time read in milliseconds,
\* signature is the signature of that very message by the key derived from
\* the secret, walletAddress the address of that key. A call that returned
\* returns the data of the response, its apiKey and walletAddress.
C14_RegisterRequest ==
  \A c \in Registrations :
    /\ pc[c] = "register" \/ outcome[c].kind = "returned" =>
         /\ Cardinality(Positions(c, IsRequest)) = 1
         /\ IsRegisterRequest(log[c][Len(log[c])])
         /\ DOMAIN LastBody(c) = {"walletAddress", "message", "signature"}
         /\ \E t \in Timestamps : LastBody(c).message = "darkfibre:" \o ToString(t)
         /\ LastBody(c).signature =
              MessageSignature(KeyPair(options[c][1].privateKey), LastBody(c).message)
         /\ LastBody(c).walletAddress = Address(KeyPair(options[c][1].privateKey))
    /\ outcome[c].kind = "returned" =>
         /\ Result(c) = submit[c][1]
         /\ DOMAIN Result(c) = {"apiKey", "walletAddress"}

\* C14 witness: a registration with a secret of 32 bytes returned the key
\* the backend issued.
C14_Witness ==
  \E c \in Registrations :
    /\ outcome[c].kind = "returned"
    /\ options[c][1].privateKey.bytes = 32
    /\ Result(c).apiKey = "key-b"
    /\ LastBody(c).message = "darkfibre:2"

AddressCalls == {c \in Calls : op[c] = "getWalletAddress"}

IsDerivation(x) == x.ev = "createKeyPair"

\* With one caller the key is derived once: a cached key pair is the one of
\* the secret and the only one ever derived, an operation that has the key
\* pair in hand has it from the cache, and every getWalletAddress returns the
\* address of that key pair.
C15_Cached ==
  /\ signer # Absent =>
       /\ signer = Some(KeyPair(privateKey))
       /\ derivations = 1
       /\ writes = 1
  /\ \A c \in SignerCalls :
       pc[c] \in {"sign", "address", "message", "submit"} \/ outcome[c].kind = "returned"
         => signer # Absent
  /\ \A c \in AddressCalls :
       outcome[c].kind = "returned" => Result(c) = Address(KeyPair(privateKey))

\* Once a key pair is cached no step derives a key or touches the cache, and
\* the secret never changes.
C15_NoRederivation ==
  /\ privateKey' = privateKey
  /\ signer # Absent =>
       /\ signer' = signer
       /\ derivations' = derivations
       /\ writes' = writes
       /\ \A c \in Calls : pc'[c] # "createKeyPair"

\* C15: getWalletAddress called again on the same signer returns the same
\* address and the key is derived exactly once: after an operation has got
\* the key pair, no later operation derives it again.
C15_DerivedOnce == []C15_Cached /\ [][C15_NoRederivation]_vars

\* C15 witness: a getWalletAddress call that found the key pair cached by an
\* earlier operation has returned the address.
C15_Witness ==
  \E c \in AddressCalls :
    /\ outcome[c].kind = "returned"
    /\ Positions(c, IsDerivation) = {}
    /\ derivations = 1
    /\ Result(c) = Address(signer[1])

\* C16: over any interleaving of operations on one signer, also of operations
\* started before the first key derivation has completed, the signing key
\* cache is written at most once.
C16_WrittenOnce == writes <= 1

\* The submit requests of call c.
SubmitRequests(c) == {log[c][i] : i \in Positions(c, IsSubmitRequest)}

\* What call c throws or returns, from its own request and responses alone.
OwnOutcome(c) ==
  IF failure[c] # Absent THEN Thrown(interceptor(failure[c][1]))
  ELSE IF build[c] = Absent THEN Pending
  ELSE IF validateLimits(build[c][1], options[c][1]) # Absent
    THEN Thrown(validateLimits(build[c][1], options[c][1])[1])
  ELSE IF submit[c] # Absent
    THEN Returned(TransactionResult(build[c][1], submit[c][1]))
  ELSE IF pc[c] = "done" /\ ~createKeyPairFromBase58(privateKey).ok
    THEN Thrown(createKeyPairFromBase58(privateKey).error[1])
  ELSE IF pc[c] = "done"
    THEN Thrown(SigningError("Failed to sign transaction", outcome[c].error[1].cause))
  ELSE Pending

\* C17: for any interleaving of concurrent buy, sell and swap calls on one
\* instance, the build responses of two calls carry different tokens, the
\* submit request of a call carries the submissionToken of that call's build
\* response and the signed form of that response's unsignedTransaction, and
\* the outcome of a call is the one its own request and responses give.
C17_Independent ==
  /\ \A c, d \in Trades :
       c # d /\ build[c] # Absent /\ build[d] # Absent =>
         build[c][1].submissionToken # build[d][1].submissionToken
  /\ \A c \in Trades :
       /\ \A x \in SubmitRequests(c) :
            /\ build[c] # Absent
            /\ x.data[1].submissionToken = build[c][1].submissionToken
            /\ x.data[1].signedTransaction =
                 Signed(KeyPair(privateKey), build[c][1].unsignedTransaction)
            /\ signedTransaction[c] = Some(x.data[1].signedTransaction)
       /\ outcome[c] = OwnOutcome(c)

\* C17 witness: two trade calls of different operations are in flight with
\* their submit requests out, the call that started its build later having
\* been built first.
C17_Witness ==
  \E c, d \in Trades :
    /\ c < d
    /\ op[c] # op[d]
    /\ pc[c] = "submit"
    /\ pc[d] = "submit"
    /\ build[c][1].submissionToken > build[d][1].submissionToken

\* The requests of call c.
Requests(c) == {log[c][i] : i \in Positions(c, IsRequest)}

\* C18 as stated: every build, submit and profile request carries the header
\* Authorization: Bearer <apiKey given at construction>, and the registration
\* request carries no Authorization header.
C18_AsStated ==
  /\ \A c \in InstanceCalls : \A x \in Requests(c) :
       x.headers[1].Authorization = Some("Bearer " \o apiKey)
  /\ \A c \in Registrations : \A x \in Requests(c) :
       x.headers[1].Authorization = Absent

\* C18 as amended: every build, submit and profile request of an instance
\* constructed with a non-empty apiKey carries Authorization: Bearer <that
\* apiKey>; the requests of an instance constructed with the empty string
\* carry no Authorization header; the registration request carries none.
C18_BearerHeader ==
  /\ \A c \in InstanceCalls : \A x \in Requests(c) :
       x.headers[1].Authorization =
         IF apiKey # "" THEN Some("Bearer " \o apiKey) ELSE Absent
  /\ \A c \in Registrations : \A x \in Requests(c) :
       x.headers[1].Authorization = Absent

\* C18 witness: a trade call of an instance with an apiKey has its build and
\* its submit request out, both with the bearer header.
C18_Witness ==
  \E c \in Trades :
    /\ apiKey = "key-a"
    /\ Cardinality(Positions(c, IsRequest)) = 2
    /\ \A x \in Requests(c) : x.headers[1].Authorization = Some("Bearer key-a")

\* What a request of call c may carry: the caller's trade options, which have
\* no key among them; the token and the signed transaction; the address, the
\* message and its signature; nothing. The secret and the key pair enter a
\* request only through Signed, Address and MessageSignature.
CarriesNoSecret(c, x) ==
  /\ x.headers[1] \in {Headers(Some(apiKey)), Headers(Absent)}
  /\ CASE x.url = "/auth/register" ->
            /\ DOMAIN x.data[1] = {"walletAddress", "message", "signature"}
            /\ x.data[1].walletAddress = Address(KeyPair(options[c][1].privateKey))
            /\ x.data[1].message \in {RegisterMessage(t) : t \in Timestamps}
            /\ x.data[1].signature =
                 MessageSignature(KeyPair(options[c][1].privateKey), x.data[1].message)
       [] x.url = "/tx/submit" ->
            /\ DOMAIN x.data[1] = {"submissionToken", "signedTransaction"}
            /\ x.data[1].submissionToken = build[c][1].submissionToken
            /\ x.data[1].signedTransaction =
                 Signed(KeyPair(privateKey), build[c][1].unsignedTransaction)
       [] x.url = "/auth/profile" -> x.data = Absent
       [] OTHER ->
            /\ x.url \in BuildUrls
            /\ x.data = options[c]
            /\ "privateKey" \notin DOMAIN x.data[1]

\* C19: no request of any operation (build, submit, register, profile)
\* contains the secret key; of what derives from it only the wallet address,
\* message signatures and signed transactions are sent.
C19_SecretStaysLocal ==
  \A c \in Calls : \A x \in Requests(c) : CarriesNoSecret(c, x)

\* C19 witness: a registration with a secret of 64 bytes has its request out.
C19_Witness ==
  \E c \in Registrations :
    /\ pc[c] = "register"
    /\ options[c][1].privateKey.bytes = 64
    /\ Positions(c, IsRegisterRequest) # {}

\* The steps of call c after its build request: what was done and, for a
\* request, where it went.
StepsAfterBuildRequest(c) ==
  [i \in 1..(Len(log[c]) - 1) |-> <<log[c][i + 1].ev, log[c][i + 1].url>>]

\* The steps the limits, the build response and the signing give, whatever
\* the operation.
PipelineSteps(c) ==
  IF build[c] = Absent THEN <<>>
  ELSE IF validateLimits(build[c][1], options[c][1]) # Absent
    THEN << <<"built", "">> >>
  ELSE << <<"built", "">>, <<"validated", "">>, <<"signTransaction", "">> >>
         \o (IF signedTransaction[c] = Absent THEN <<>>
             ELSE << <<"signed", "">>, <<"request", "/tx/submit">> >>)

\* The fields of the payload of an operation, the two limits apart.
PayloadShape(name) ==
  CASE name = "buy" -> {"mint", "solAmount", "slippage", "priority"}
    [] name = "sell" -> {"mint", "tokenAmount", "slippage", "priority"}
    [] name = "swap" -> {"inputMint", "outputMint", "amount", "swapMode",
                         "slippage", "priority"}

\* C20: buy, sell and swap differ only in the endpoint and the payload of
\* their build request: the first step of a call is the POST of its options
\* to /tx/buy, /tx/sell or /tx/swap, and from there on the steps taken, the
\* submit to /tx/submit and the result or error are those that the limits,
\* the build response, the signing and the submit response give, the same for
\* the three operations.
C20_SamePipeline ==
  \A c \in Trades :
    /\ log[c][1] = Request("POST", "/tx/" \o op[c], options[c], Headers(Some(apiKey)))
    /\ DOMAIN options[c][1]
         = PayloadShape(op[c]) \cup {"maxPriceImpact", "maxPriorityCost"}
    /\ StepsAfterBuildRequest(c) = PipelineSteps(c)
    /\ outcome[c] = OwnOutcome(c)

\* C20 witness: a sell call with both limits set has returned its result.
C20_Witness ==
  \E c \in Trades :
    /\ op[c] = "sell"
    /\ options[c][1].maxPriceImpact # Absent
    /\ options[c][1].maxPriorityCost # Absent
    /\ outcome[c].kind = "returned"
    /\ Len(log[c]) = 6

\* The trade calls whose signing step has failed: the signer was called, the
\* call threw, and no request of it was rejected.
FailedSignings ==
  {c \in Trades : /\ Positions(c, IsSignerCall) # {}
                  /\ outcome[c].kind = "thrown"
                  /\ failure[c] = Absent}

\* C21: every failure inside signTransaction, of the key derivation, of the
\* decoding or of the signing, is raised as a SigningError, and the trade call
\* throws that SigningError as it is: the error of the derivation itself, or
\* 'Failed to sign transaction' with the failure of decoding or signing as
\* its cause; nothing is submitted.
C21_SigningErrorSurfaced ==
  \A c \in FailedSignings :
    /\ ThrownError(c).name = "SigningError"
    /\ Positions(c, IsSubmitRequest) = {}
    /\ IF createKeyPairFromBase58(privateKey).ok
         THEN \E e \in SigningCauses :
                ThrownError(c) = SigningError("Failed to sign transaction", Some(e))
         ELSE ThrownError(c) = createKeyPairFromBase58(privateKey).error[1]

\* C21 witness: the key pair was at hand and the signing primitive threw; the
\* call threw the SigningError that wraps that failure.
C21_Witness ==
  \E c \in FailedSignings :
    /\ signer # Absent
    /\ ThrownError(c).cause = Some(PlainError("Signing failed"))

Profiles == {c \in Calls : op[c] = "getProfile"}

\* A getProfile call has issued its one GET and nothing else, holds neither a
\* build nor a signed transaction, and what it returned is the data of the
\* response.
C22_OneGet ==
  \A c \in Profiles :
    /\ log[c] = <<Request("GET", "/auth/profile", Absent, Headers(Some(apiKey)))>>
    /\ pc[c] \in {"profile", "done"}
    /\ build[c] = Absent
    /\ signedTransaction[c] = Absent
    /\ outcome[c].kind = "returned" => submit[c] # Absent /\ Result(c) = submit[c][1]
    /\ outcome[c].kind = "thrown" => failure[c] # Absent /\ submit[c] = Absent

\* No step of a getProfile call derives a key or touches the signer.
C22_NoSigner ==
  \A c \in Calls :
    op'[c] = "getProfile" =>
      /\ derivations' = derivations
      /\ writes' = writes
      /\ signer' = signer

\* C22: getProfile issues exactly one GET to /auth/profile, no POST, no
\* signing and no key derivation, and returns the data of the response
\* unchanged.
C22_ProfilePassthrough == []C22_OneGet /\ [][C22_NoSigner]_vars

\* C22 witness: a getProfile call returned a profile that names a next fee tier.
C22_Witness ==
  \E c \in Profiles :
    /\ outcome[c].kind = "returned"
    /\ Result(c).createdAt = 2
    /\ Result(c).fee.nextBps = Some(50)
    /\ Len(log[c]) = 1

\* No token has reached /tx/submit twice and none before a build handed it
\* out; a trade call starts with its build request, and a submit request it
\* has issued carries the token of its own build.
C23_Submitted ==
  /\ \A t \in Tokens :
       /\ submitted[t] <= 1
       /\ t >= nextToken => submitted[t] = 0
  /\ \A c \in Trades :
       /\ IsBuildRequest(log[c][1])
       /\ build[c] # Absent => build[c][1].submissionToken < nextToken
       /\ \A x \in SubmitRequests(c) :
            /\ x.data[1].submissionToken = build[c][1].submissionToken
            /\ submitted[x.data[1].submissionToken] = 1

\* A build response brings a token no build has handed out before, and a
\* token is posted to /tx/submit only by the call it was handed to, while
\* that call is at its signing step: the token of a call that is over is
\* never posted again.
C23_FreshToken ==
  /\ nextToken' >= nextToken
  /\ \A c \in Calls :
       build'[c] # build[c] /\ build'[c] # Absent =>
         /\ build'[c][1].submissionToken = nextToken
         /\ nextToken' > nextToken
         /\ submitted[nextToken] = 0
  /\ \A t \in Tokens :
       submitted'[t] # submitted[t] =>
         /\ submitted[t] = 0
         /\ submitted'[t] = 1
         /\ \E c \in Trades :
              /\ pc[c] = "sign"
              /\ pc'[c] = "submit"
              /\ build[c][1].submissionToken = t

\* C23: a trade call that follows a failed one starts from a new build
\* request and submits only the token of that new build: the token of the
\* failed call is never sent to /tx/submit again and no token is submitted
\* more than once.
C23_RetrySafe == []C23_Submitted /\ [][C23_FreshToken]_vars

\* C23 witness: the first call was built with token 1 and failed before its
\* submit; the call after it has submitted token 2, and token 1 was never
\* submitted.
C23_Witness ==
  \E c \in Trades :
    /\ pc[c] = "submit"
    /\ build[c][1].submissionToken = 2
    /\ submitted[1] = 0
    /\ submitted[2] = 1

\* The operations that go through the signer of the instance.
SignerOps == TradeOps \cup {"getWalletAddress", "signMessage"}

\* A step leaves the endpoint, the credential and the secret of the instance
\* as they are; the signer cache changes only when getSigner of an operation
\* on the instance's signer stores the key pair of the secret, and never
\* during a register or a getProfile call.
C24_Unchanged ==
  /\ baseUrl' = baseUrl
  /\ apiKey' = apiKey
  /\ privateKey' = privateKey
  /\ signer' # signer =>
       /\ signer' = Some(KeyPair(privateKey))
       /\ \E c \in Calls : op[c] \in SignerOps /\ pc[c] = "createKeyPair"
  /\ \A c \in Calls :
       op'[c] \in {"register", "getProfile"} => signer' = signer

\* C24: no public operation changes state that outlives the call, the
\* signer's cached key pair apart: buy, sell, swap and getProfile leave the
\* endpoint, the credential and the secret unchanged, and register stores
\* nothing on the instance, the key it returns included.
C24_Frame == [][C24_Unchanged]_vars

\* C24 witness: a registration with a valid secret has returned a key other
\* than the credential of the instance, whose signer cache is still empty.
C24_Witness ==
  \E c \in Registrations :
    /\ outcome[c].kind = "returned"
    /\ Result(c).apiKey = "key-b"
    /\ apiKey = "key-a"
    /\ signer = Absent
    /\ derivations = 0

\* The limit is absent or the value is not greater than it.
Within(value, limit) == limit = Absent \/ value <= limit[1]

Built == {c \in Trades : build[c] # Absent}

\* C25: after a successful build a trade call reaches the signing step if and
\* only if maxPriceImpact is absent or priceImpact <= maxPriceImpact, and
\* maxPriorityCost is absent or priorityCost <= maxPriorityCost; a value equal
\* to its limit passes, a limit of 0 is enforced, and without limits every
\* build response goes on to signing.
C25_SigningIffWithinLimits ==
  \A c \in Built :
    /\ Positions(c, IsSignerCall) # {} <=>
         /\ Within(build[c][1].estimates.priceImpact, options[c][1].maxPriceImpact)
         /\ Within(build[c][1].priorityCost, options[c][1].maxPriorityCost)
    /\ Positions(c, IsSignerCall) = {} <=> FailsValidation(c, "maxPriceImpact")
                                            \/ FailsValidation(c, "maxPriorityCost")

\* C25 witness: a call whose limits are 0 and 1 was built with a price impact
\* of 0 and a priority cost of 1, and the signer was called.
C25_Witness ==
  \E c \in Built :
    /\ options[c][1].maxPriceImpact = Some(0)
    /\ options[c][1].maxPriorityCost = Some(1)
    /\ build[c][1].estimates.priceImpact = 0
    /\ build[c][1].priorityCost = 1
    /\ Positions(c, IsSignerCall) # {}

\* C26: a build response that exceeds both limits makes the call fail with
\* the ValidationError of field 'maxPriceImpact', whose message is the one
\* about the price impact; the error of field 'maxPriorityCost' is thrown
\* only when the price impact is within its limit.
C26_PriceImpactFirst ==
  \A c \in Built :
    /\ ExceedsPriceImpact(c) /\ ExceedsPriorityCost(c) =>
         /\ FailsValidation(c, "maxPriceImpact")
         /\ StartsWith(ThrownError(c).message, "Price impact ")
    /\ FailsValidation(c, "maxPriorityCost") =>
         /\ ExceedsPriorityCost(c)
         /\ Within(build[c][1].estimates.priceImpact, options[c][1].maxPriceImpact)
         /\ StartsWith(ThrownError(c).message, "Priority cost ")

\* C26 witness: a swap with both limits 0 was built with a price impact of 1
\* and a priority cost of 1 and threw the error of field 'maxPriceImpact'.
C26_Witness ==
  \E c \in Built :
    /\ op[c] = "swap"
    /\ options[c][1].maxPriceImpact = Some(0)
    /\ options[c][1].maxPriorityCost = Some(0)
    /\ build[c][1].estimates.priceImpact = 1
    /\ build[c][1].priorityCost = 1
    /\ FailsValidation(c, "maxPriceImpact")

\* The instance has been constructed: whatever its secret, no key has been
\* derived, nothing is cached, no request has gone out and nothing has failed.
C27_Constructed ==
  /\ signer = Absent
  /\ derivations = 0
  /\ \A c \in Calls : log[c] = <<>> /\ outcome[c] = NoOutcome /\ pc[c] = "idle"

\* On an instance whose secret gives no key pair, a trade call begins with its
\* build POST; once the build has resolved and the limits have passed it has
\* called the signer and fails there with the SigningError of the
\* derivation; it never posts to /tx/submit and never returns.
C27_FailsAtSigning ==
  ~createKeyPairFromBase58(privateKey).ok =>
    /\ signer = Absent
    /\ \A c \in Trades :
         /\ IsBuildRequest(log[c][1])
         /\ Positions(c, IsSubmitRequest) = {}
         /\ outcome[c].kind # "returned"
         /\ Positions(c, IsSignerCall) # {} =>
              /\ Positions(c, IsRequest) = {1}
              /\ Precedes(c, IsBuilt, IsSignerCall)
              /\ pc[c] = "createKeyPair"
                   \/ (outcome[c].kind = "thrown"
                         /\ ThrownError(c) = createKeyPairFromBase58(privateKey).error[1]
                         /\ ThrownError(c).name = "SigningError")

\* C27: key derivation is lazy: constructing an instance with an invalid
\* secret does not fail and makes no network call, and a trade call on it
\* issues its build POST first and then, the build resolved and the limits
\* passed, fails at the signing step with a SigningError, without a POST to
\* /tx/submit.
C27_LazyDerivation == C27_Constructed /\ []C27_FailsAtSigning

\* C27 witness: on an instance whose secret is not base58, a buy call was
\* built, passed its limits and threw the SigningError of the derivation.
C27_Witness ==
  \E c \in Trades :
    /\ ~privateKey.base58
    /\ op[c] = "buy"
    /\ Len(log[c]) = 4
    /\ outcome[c].kind = "thrown"
    /\ ThrownError(c).name = "SigningError"
    /\ ThrownError(c).message = "Failed to create keypair from private key"

\* Call c calls getSigner in this step.
CallsGetSigner(c) ==
  \/ op'[c] \in {"getWalletAddress", "signMessage"} /\ pc[c] = "idle" /\ pc'[c] # "idle"
  \/ op[c] \in TradeOps /\ Positions(c, IsSignerCall) = {}
       /\ \E i \in DOMAIN log'[c] : IsSignerCall(log'[c][i])

\* On a signer whose secret gives no key pair the cache stays empty, and an
\* operation that has ended has thrown the SigningError of the derivation.
C28_StillEmpty ==
  ~createKeyPairFromBase58(privateKey).ok =>
    /\ signer = Absent
    /\ writes = 0
    /\ \A c \in SignerCalls :
         /\ pc[c] \in {"createKeyPair", "done"}
         /\ pc[c] = "done" =>
              /\ outcome[c].kind = "thrown"
              /\ ThrownError(c) = createKeyPairFromBase58(privateKey).error[1]
              /\ ThrownError(c).name = "SigningError"

\* On such a signer every call of getSigner, the later ones as the first,
\* starts a derivation.
C28_DerivesAgain ==
  ~createKeyPairFromBase58(privateKey).ok =>
    \A c \in Calls :
      CallsGetSigner(c) =>
        /\ derivations' = derivations + 1
        /\ pc'[c] = "createKeyPair"

\* C28: a failed key derivation is not cached: after getSigner has failed the
\* cache is still empty, and every later signTransaction, signMessage or
\* getWalletAddress on that signer attempts the derivation again and fails
\* with the same error.
C28_FailureNotCached == []C28_StillEmpty /\ [][C28_DerivesAgain]_vars

\* C28 witness: on a signer whose 64 bytes the key primitive rejects, a
\* getWalletAddress call after a failed derivation derived again and failed.
C28_Witness ==
  \E c \in AddressCalls :
    /\ privateKey.bytes = 64
    /\ ~privateKey.accepted
    /\ derivations = 2
    /\ signer = Absent
    /\ outcome[c].kind = "thrown"
    /\ ThrownError(c).message = "Failed to create keypair from private key"

\* The cache is empty or holds the key pair derived from the secret given at
\* construction.
C29_EmptyOrOfSecret ==
  /\ signer \in {Absent, Some(KeyPair(privateKey))}
  /\ signer # Absent => createKeyPairFromBase58(privateKey) = Resolved(signer[1])
  /\ signer = Absent <=> writes = 0

\* A filled cache is not emptied, and whatever a step writes to the cache is
\* the key pair derived from that secret.
C29_KeptAndOfSecret ==
  /\ signer # Absent => signer' # Absent
  /\ writes' # writes =>
       /\ writes' = writes + 1
       /\ signer' = Some(KeyPair(privateKey))
       /\ privateKey' = privateKey

\* C29: in every reachable state the signer cache is empty or holds a key
\* pair derived from the secret given at construction; once filled it is
\* never emptied, and with calls in flight together every value written to
\* it is derived from that same secret.
C29_CacheOfSecret == []C29_EmptyOrOfSecret /\ [][C29_KeptAndOfSecret]_vars

\* C29 witness: two calls derived the key together and the cache, written for
\* the second time, holds the key pair of the secret.
C29_Witness ==
  /\ writes = 2
  /\ derivations = 2
  /\ signer = Some(KeyPair(privateKey))
  /\ \E c, d \in Trades : c # d /\ pc[c] = "sign" /\ pc[d] = "sign"

PublicOps == TradeOps \cup {"register", "getProfile"}

\* A trade call has issued at most two requests and signed at most once.
C30_Bounded ==
  \A c \in Trades :
    /\ Cardinality(Positions(c, IsRequest)) <= 2
    /\ Cardinality(Positions(c, IsSignerCall)) <= 1
    /\ Cardinality(Positions(c, IsSigned)) <= 1
    /\ pc[c] = "done" => Len(log[c]) <= 6

\* C30: every buy, sell, swap, register and getProfile call eventually
\* completes, returning its result or throwing an error, provided every
\* request eventually responds, errors or times out and every call of a key
\* or signing primitive eventually returns; a trade call completes after at
\* most two requests and one signing.
C30_Completes ==
  /\ []C30_Bounded
  /\ \A c \in Calls :
       (op[c] \in PublicOps /\ pc[c] # "done")
         ~> (pc[c] = "done" /\ outcome[c].kind \in {"returned", "thrown"})

\* C30 witness: a sell call has completed on the response of its submit
\* POST, its second request, after its one signing.
C30_Witness ==
  \E c \in Trades :
    /\ op[c] = "sell"
    /\ pc[c] = "done"
    /\ submit[c] # Absent
    /\ Cardinality(Positions(c, IsRequest)) = 2
    /\ Cardinality(Positions(c, IsSigned)) = 1

====
